---------------------------- MODULE Spec2Model ----------------------------
(***************************************************************************)
(* docker-tags: a model of the registry client in src/src/lib.rs           *)
(* (Image::try_from, Image::fetch_tags, Image::handle_auth_challenge,      *)
(* Tag::cmp) and of the caller's sort in src/src/main.rs.                  *)
(*                                                                         *)
(* Rust Strings are modelled as sequences of one-character strings, so     *)
(* that splitting, trimming, prefixing and byte-wise comparison are        *)
(* computed as the code computes them.                                     *)
(***************************************************************************)
EXTENDS Naturals, Integers, Sequences, FiniteSets, TLC

VARIABLES
    image,        \* the Image value (&self): [registry, repository]
    pc,           \* position of fetch_tags: idle | start | send | await | auth | done
    url,          \* fetch_tags: let url (the base URL)
    next_url,     \* fetch_tags: let mut next_url
    token,        \* fetch_tags: let mut token
    tags,         \* fetch_tags: let mut tags
    hdr,          \* the WWW-Authenticate value handed to handle_auth_challenge
    result,       \* what fetch_tags returned (or that it panicked)
    requests,     \* history: every tags-list request issued, in order
    responses,    \* history: the registry's answer to each request
    authruns,     \* history: every run of handle_auth_challenge
    arg,          \* pure-function specifications: the input drawn
    ret           \* pure-function specifications: the value returned

fetchVars == <<image, pc, url, next_url, token, tags, hdr, result,
               requests, responses, authruns>>
pureVars == <<arg, ret>>
vars == <<image, pc, url, next_url, token, tags, hdr, result,
          requests, responses, authruns, arg, ret>>

-----------------------------------------------------------------------------
(* Strings *)

EmptyStr == <<>>

\* str.contains(c)
Contains(s, c) == \E i \in DOMAIN s : s[i] = c

\* every string over alphabet A of length at most n
RECURSIVE StringsUpTo(_, _)
StringsUpTo(A, n) ==
    IF n = 0 THEN {EmptyStr}
    ELSE LET shorter == StringsUpTo(A, n - 1)
         IN  shorter \cup {Append(s, c) : s \in {t \in shorter : Len(t) = n - 1}, c \in A}

\* str.split(sep).collect::<Vec<_>>(): always at least one part
RECURSIVE SplitFrom(_, _, _, _)
SplitFrom(s, sep, i, cur) ==
    IF i > Len(s) THEN <<cur>>
    ELSE IF s[i] = sep THEN <<cur>> \o SplitFrom(s, sep, i + 1, EmptyStr)
    ELSE SplitFrom(s, sep, i + 1, Append(cur, s[i]))

Split(s, sep) == SplitFrom(s, sep, 1, EmptyStr)

\* the byte value of a character (ASCII), for String's Ord; "x80" stands for
\* one byte outside ASCII
Byte(c) ==
    CASE c = " " -> 32 [] c = "\"" -> 34 [] c = "+" -> 43 [] c = "," -> 44
      [] c = "-" -> 45 [] c = "." -> 46 [] c = "/" -> 47
      [] c = "0" -> 48 [] c = "1" -> 49 [] c = "2" -> 50 [] c = "3" -> 51
      [] c = "4" -> 52 [] c = "5" -> 53 [] c = "6" -> 54 [] c = "7" -> 55
      [] c = "8" -> 56 [] c = "9" -> 57 [] c = ":" -> 58 [] c = "=" -> 61
      [] c = "?" -> 63 [] c = "B" -> 66
      [] c = "a" -> 97 [] c = "b" -> 98 [] c = "c" -> 99 [] c = "d" -> 100
      [] c = "e" -> 101 [] c = "f" -> 102 [] c = "g" -> 103 [] c = "h" -> 104
      [] c = "i" -> 105 [] c = "k" -> 107 [] c = "l" -> 108 [] c = "m" -> 109
      [] c = "n" -> 110 [] c = "o" -> 111 [] c = "p" -> 112 [] c = "q" -> 113
      [] c = "r" -> 114 [] c = "s" -> 115 [] c = "t" -> 116 [] c = "u" -> 117
      [] c = "v" -> 118 [] c = "w" -> 119 [] c = "x" -> 120 [] c = "y" -> 121
      [] c = "z" -> 122
      [] c = "%" -> 37 [] c = "&" -> 38 [] c = "A" -> 65 [] c = "C" -> 67
      [] c = "D" -> 68 [] c = "E" -> 69 [] c = "F" -> 70 [] c = "j" -> 106
      [] c = "*" -> 42 [] c = "_" -> 95 [] c = "x80" -> 128

-----------------------------------------------------------------------------
(* Image and the reference parser *)

DockerIo == <<"d","o","c","k","e","r",".","i","o">>

\* Image::new
NewImage(registry, repository) ==
    [registry |-> registry, repository |-> repository]

TryFromNoDotCheck(value) ==
    LET parts == Split(value, "/")
    IN  CASE Len(parts) = 1 -> [ok |-> TRUE, image |-> NewImage(DockerIo, value)]
          [] Len(parts) = 2 -> [ok |-> TRUE, image |-> NewImage(parts[1], parts[2])]
          [] Len(parts) = 3 ->
                [ok |-> TRUE, image |-> NewImage(parts[1], parts[2] \o <<"/">> \o parts[3])]
          [] OTHER -> [ok |-> FALSE, err |-> "Invalid image format"]

\* impl TryFrom<&str> for Image
TryFrom(value) ==
    LET parts == Split(value, "/")
    IN  CASE Len(parts) = 1 -> [ok |-> TRUE, image |-> NewImage(DockerIo, value)]
          [] Len(parts) = 2 ->
                IF Contains(parts[1], ".")
                THEN [ok |-> TRUE, image |-> NewImage(parts[1], parts[2])]
                ELSE [ok |-> TRUE, image |-> NewImage(DockerIo, value)]
          [] Len(parts) = 3 /\ Contains(parts[1], ".") ->
                [ok |-> TRUE, image |-> NewImage(parts[1], parts[2] \o <<"/">> \o parts[3])]
          [] OTHER -> [ok |-> FALSE, err |-> "Invalid image format"]

-----------------------------------------------------------------------------
(* Tag ordering: semver::Version::parse, Version's Ord, and Tag::cmp *)

Digits == {"0", "1", "2", "3", "4", "5", "6", "7", "8", "9"}

Letters == {"a", "b", "c", "d", "e", "f", "g", "h", "i", "j", "k", "l", "m",
            "n", "o", "p", "q", "r", "s", "t", "u", "v", "w", "x", "y", "z",
            "A", "B", "C", "D", "E", "F"}

IsDigits(s) == \A i \in DOMAIN s : s[i] \in Digits

\* the characters of a pre-release or build identifier: [0-9A-Za-z-]
IsIdentChars(s) == \A i \in DOMAIN s : s[i] \in Digits \cup Letters \cup {"-"}

DigitValue(c) == Byte(c) - Byte("0")

RECURSIVE DecimalValue(_)
DecimalValue(s) ==
    IF s = EmptyStr THEN 0
    ELSE 10 * DecimalValue(SubSeq(s, 1, Len(s) - 1)) + DigitValue(s[Len(s)])

\* Ord for integers
CmpInt(x, y) == IF x < y THEN "Less" ELSE IF x > y THEN "Greater" ELSE "Equal"

\* Ord for str: byte-wise lexicographic, a proper prefix is smaller
RECURSIVE StrCmp(_, _)
StrCmp(a, b) ==
    CASE a = EmptyStr /\ b = EmptyStr -> "Equal"
      [] a = EmptyStr /\ b # EmptyStr -> "Less"
      [] a # EmptyStr /\ b = EmptyStr -> "Greater"
      [] OTHER ->
            IF Byte(Head(a)) # Byte(Head(b))
            THEN CmpInt(Byte(Head(a)), Byte(Head(b)))
            ELSE StrCmp(Tail(a), Tail(b))

\* Ordering::then_with
ThenWith(o, next) == IF o # "Equal" THEN o ELSE next

\* str.trim_start_matches('v'): every leading 'v' is removed
RECURSIVE TrimStartMatchesV(_)
TrimStartMatchesV(s) ==
    IF s # EmptyStr /\ Head(s) = "v" THEN TrimStartMatchesV(Tail(s)) ELSE s

\* str.trim_start_matches('0')
RECURSIVE TrimStartMatchesZero(_)
TrimStartMatchesZero(s) ==
    IF s # EmptyStr /\ Head(s) = "0" THEN TrimStartMatchesZero(Tail(s)) ELSE s

\* the position of the first c in s, or 0
FirstIndexOf(s, c) ==
    IF Contains(s, c)
    THEN CHOOSE i \in DOMAIN s : s[i] = c /\ \A j \in 1..(i - 1) : s[j] # c
    ELSE 0

\* MAJOR, MINOR, PATCH: digits, no leading zero
IsNumericIdentifier(s) ==
    /\ s # EmptyStr
    /\ IsDigits(s)
    /\ (Len(s) > 1 => s[1] # "0")

\* a pre-release: non-empty identifiers of [0-9A-Za-z-], numeric ones without
\* leading zeros
IsPrerelease(ids) ==
    \A i \in DOMAIN ids :
        /\ ids[i] # EmptyStr
        /\ IsIdentChars(ids[i])
        /\ (IsDigits(ids[i]) /\ Len(ids[i]) > 1 => ids[i][1] # "0")

\* build metadata: non-empty identifiers of [0-9A-Za-z-]
IsBuildMetadata(ids) ==
    \A i \in DOMAIN ids : ids[i] # EmptyStr /\ IsIdentChars(ids[i])

NoVersion == [ok |-> FALSE]

\* semver::Version::parse: MAJOR.MINOR.PATCH[-PRE][+BUILD], nothing else.
\* The build metadata starts at the first '+', the pre-release at the first
\* '-' before it; an empty pre-release or build after its sign is an error.
VersionParse(text) ==
    LET plus == FirstIndexOf(text, "+")
        front == IF plus = 0 THEN text ELSE SubSeq(text, 1, plus - 1)
        build == IF plus = 0 THEN <<>> ELSE Split(SubSeq(text, plus + 1, Len(text)), ".")
        dash == FirstIndexOf(front, "-")
        core == IF dash = 0 THEN front ELSE SubSeq(front, 1, dash - 1)
        pre == IF dash = 0 THEN <<>> ELSE Split(SubSeq(front, dash + 1, Len(front)), ".")
        nums == Split(core, ".")
    IN  IF /\ Len(nums) = 3
           /\ \A i \in 1..3 : IsNumericIdentifier(nums[i])
           /\ IsPrerelease(pre)
           /\ IsBuildMetadata(build)
        THEN [ok |-> TRUE,
              major |-> DecimalValue(nums[1]),
              minor |-> DecimalValue(nums[2]),
              patch |-> DecimalValue(nums[3]),
              pre |-> pre,
              build |-> build]
        ELSE NoVersion

\* Ord for Prerelease, identifier by identifier
RECURSIVE PreIdentsCmp(_, _)
PreIdentsCmp(l, r) ==
    CASE l = <<>> /\ r = <<>> -> "Equal"
      [] l = <<>> /\ r # <<>> -> "Less"
      [] l # <<>> /\ r = <<>> -> "Greater"
      [] OTHER ->
            LET a == Head(l)
                b == Head(r)
            IN  CASE IsDigits(a) /\ ~IsDigits(b) -> "Less"
                  [] ~IsDigits(a) /\ IsDigits(b) -> "Greater"
                  [] OTHER ->
                        LET o == IF IsDigits(a) /\ IsDigits(b)
                                 THEN ThenWith(CmpInt(Len(a), Len(b)), StrCmp(a, b))
                                 ELSE StrCmp(a, b)
                        IN  ThenWith(o, PreIdentsCmp(Tail(l), Tail(r)))

\* Ord for Prerelease: a release is greater than any of its pre-releases
PrereleaseCmp(l, r) ==
    CASE l = <<>> /\ r = <<>> -> "Equal"
      [] l = <<>> /\ r # <<>> -> "Greater"
      [] l # <<>> /\ r = <<>> -> "Less"
      [] OTHER -> PreIdentsCmp(l, r)

\* Ord for BuildMetadata, identifier by identifier; numeric identifiers by
\* value, then by their number of leading zeros
RECURSIVE BuildIdentsCmp(_, _)
BuildIdentsCmp(l, r) ==
    CASE l = <<>> /\ r = <<>> -> "Equal"
      [] l = <<>> /\ r # <<>> -> "Less"
      [] l # <<>> /\ r = <<>> -> "Greater"
      [] OTHER ->
            LET a == Head(l)
                b == Head(r)
            IN  CASE IsDigits(a) /\ ~IsDigits(b) -> "Less"
                  [] ~IsDigits(a) /\ IsDigits(b) -> "Greater"
                  [] OTHER ->
                        LET av == TrimStartMatchesZero(a)
                            bv == TrimStartMatchesZero(b)
                            o == IF IsDigits(a) /\ IsDigits(b)
                                 THEN ThenWith(CmpInt(Len(av), Len(bv)),
                                        ThenWith(StrCmp(av, bv), CmpInt(Len(a), Len(b))))
                                 ELSE StrCmp(a, b)
                        IN  ThenWith(o, BuildIdentsCmp(Tail(l), Tail(r)))

\* Ord for BuildMetadata: the empty metadata is the least
BuildMetadataCmp(l, r) == BuildIdentsCmp(l, r)

\* Ord for Version (derived): major, minor, patch, pre, build
VersionCmp(a, b) ==
    ThenWith(CmpInt(a.major, b.major),
      ThenWith(CmpInt(a.minor, b.minor),
        ThenWith(CmpInt(a.patch, b.patch),
          ThenWith(PrereleaseCmp(a.pre, b.pre),
                   BuildMetadataCmp(a.build, b.build)))))

\* Tag::cmp with both mixed arms returning Less
TagCmpMixedLess(self, other) ==
    LET a == VersionParse(TrimStartMatchesV(self))
        b == VersionParse(TrimStartMatchesV(other))
    IN  CASE a.ok /\ b.ok -> VersionCmp(b, a)
          [] a.ok /\ ~b.ok -> "Less"
          [] ~a.ok /\ b.ok -> "Less"
          [] OTHER -> StrCmp(self, other)

\* Tag::cmp comparing the versions as a.cmp(&b): oldest first
TagCmpOldestFirst(self, other) ==
    LET a == VersionParse(TrimStartMatchesV(self))
        b == VersionParse(TrimStartMatchesV(other))
    IN  CASE a.ok /\ b.ok -> VersionCmp(a, b)
          [] a.ok /\ ~b.ok -> "Less"
          [] ~a.ok /\ b.ok -> "Greater"
          [] OTHER -> StrCmp(self, other)

\* impl Ord for Tag: cmp(&self, other); a Tag is modelled by its name
TagCmp(self, other) ==
    LET a == VersionParse(TrimStartMatchesV(self))
        b == VersionParse(TrimStartMatchesV(other))
    IN  CASE a.ok /\ b.ok -> VersionCmp(b, a)
          [] a.ok /\ ~b.ok -> "Less"
          [] ~a.ok /\ b.ok -> "Greater"
          [] OTHER -> StrCmp(self, other)

-----------------------------------------------------------------------------
(* Values shared by the specifications *)

None == [kind |-> "none"]

IdleImage == NewImage(EmptyStr, EmptyStr)

\* the fetch machine at rest: the pure-function specifications leave it here
FetchIdle ==
    /\ image = IdleImage
    /\ pc = "idle"
    /\ url = EmptyStr
    /\ next_url = EmptyStr
    /\ token = EmptyStr
    /\ tags = <<>>
    /\ hdr = EmptyStr
    /\ result = None
    /\ requests = <<>>
    /\ responses = <<>>
    /\ authruns = <<>>

-----------------------------------------------------------------------------
(* Specification of the reference parser: Image::try_from on every string  *)
(* of at most MaxRefLen characters over RefAlphabet.                       *)

MaxRefLen == 5

RefAlphabet == {"a", ".", "/"}

RefInputs == StringsUpTo(RefAlphabet, MaxRefLen)

InitTryFrom ==
    /\ FetchIdle
    /\ arg \in RefInputs
    /\ ret = None

CallTryFrom ==
    /\ ret = None
    /\ ret' = TryFrom(arg)
    /\ UNCHANGED <<arg, fetchVars>>

NextTryFrom == CallTryFrom

SpecTryFrom == InitTryFrom /\ [][NextTryFrom]_vars

\* claim-side reading of the input: the number of '/'-separated segments
\* and the text before the first '/'
SlashCount(s) == Cardinality({i \in DOMAIN s : s[i] = "/"})

SegmentCount(s) == SlashCount(s) + 1

FirstSegment(s) ==
    IF Contains(s, "/")
    THEN SubSeq(s, 1, (CHOOSE i \in DOMAIN s : s[i] = "/" /\ \A j \in 1..(i - 1) : s[j] # "/") - 1)
    ELSE s

\* the result is (registry, repository) cut at the first '/'
CutAtFirstSlash(s, r) ==
    /\ r.ok
    /\ r.image.registry = FirstSegment(s)
    /\ r.image.registry \o <<"/">> \o r.image.repository = s

DefaultsToDockerIo(s, r) ==
    /\ r.ok
    /\ r.image = NewImage(DockerIo, s)

\* C2: for every input s with n '/'-separated segments, try_from returns
\* n=1 -> (docker.io, s); n=2 with '.' in the first segment -> (first, second);
\* n=2 without -> (docker.io, s); n=3 with '.' in the first segment ->
\* (first, second/third); n=3 without, or n>=4 -> "Invalid image format".
C2_TryFromTable ==
    ret # None =>
        LET n == SegmentCount(arg)
            dotted == Contains(FirstSegment(arg), ".")
        IN  /\ n = 1 => DefaultsToDockerIo(arg, ret)
            /\ (n = 2 /\ dotted) => CutAtFirstSlash(arg, ret)
            /\ (n = 2 /\ ~dotted) => DefaultsToDockerIo(arg, ret)
            /\ (n = 3 /\ dotted) => CutAtFirstSlash(arg, ret)
            /\ ((n = 3 /\ ~dotted) \/ n >= 4) =>
                    ret = [ok |-> FALSE, err |-> "Invalid image format"]

\* a three-segment reference with a dotted host has been parsed
C2_Witness ==
    /\ ret # None
    /\ SegmentCount(arg) = 3
    /\ Contains(FirstSegment(arg), ".")
    /\ ret.ok
    /\ Contains(ret.image.repository, "/")

-----------------------------------------------------------------------------
(* Specification of the tag ordering: Tag::cmp on every triple of tag names *)
(* of TagNames.                                                            *)

\* semantic versions in strictly ascending precedence (semver.org, item 11:
\* numeric fields by value, a pre-release below its release, numeric
\* pre-release identifiers by value and below alphanumeric ones, a longer
\* pre-release above its prefix)
SemverAscending ==
    << <<"1",".","0",".","0","-","a">>,
       <<"1",".","0",".","0","-","a",".","1">>,
       <<"1",".","0",".","0","-","a",".","b">>,
       <<"1",".","0",".","0","-","b",".","2">>,
       <<"1",".","0",".","0","-","b",".","1","1">>,
       <<"1",".","0",".","0">>,
       <<"1",".","2",".","0">>,
       <<"1",".","9",".","0">>,
       <<"1",".","1","0",".","0">> >>

SemVers == {SemverAscending[i] : i \in DOMAIN SemverAscending}

\* a version that differs from 1.0.0 in build metadata only
BuildVersion == <<"1",".","0",".","0","+","b">>

\* names that are no semantic version, with or without leading 'v's
Words == {<<"l","a","t","e","s","t">>, <<"a","l","p","h","a">>, <<"1",".","0">>, <<"0","1",".","0",".","0">>}

\* the greatest number of leading 'v' characters put before a name
MaxLeadingV == 2

RECURSIVE WithLeadingV(_, _)
WithLeadingV(k, s) == IF k = 0 THEN s ELSE <<"v">> \o WithLeadingV(k - 1, s)

TagNames ==
    {WithLeadingV(k, s) : k \in 0..MaxLeadingV, s \in SemVers \cup Words}
        \cup {BuildVersion}

InitCmp ==
    /\ FetchIdle
    /\ arg \in TagNames \X TagNames \X TagNames
    /\ ret = None

\* a.cmp(&b) and the other comparisons of the three tags drawn
CallCmp ==
    /\ ret = None
    /\ ret' = [ab |-> TagCmp(arg[1], arg[2]),
               ba |-> TagCmp(arg[2], arg[1]),
               aa |-> TagCmp(arg[1], arg[1]),
               bc |-> TagCmp(arg[2], arg[3]),
               ac |-> TagCmp(arg[1], arg[3])]
    /\ UNCHANGED <<arg, fetchVars>>

NextCmp == CallCmp

SpecCmp == InitCmp /\ [][NextCmp]_vars

\* claim-side reading of Ordering: cmp(..) <= Equal
AtMostEqual(o) == o \in {"Less", "Equal"}

Mirror(o) == CASE o = "Less" -> "Greater" [] o = "Greater" -> "Less" [] o = "Equal" -> "Equal"

\* C7: Tag::cmp is a consistent total ordering: cmp(a,b) is the reverse of
\* cmp(b,a), cmp(a,a) is Equal, and cmp(a,b) <= Equal and cmp(b,c) <= Equal
\* imply cmp(a,c) <= Equal, for versioned and unversioned names alike.
C7_TotalOrder ==
    ret # None =>
        /\ ret.ab \in {"Less", "Equal", "Greater"}
        /\ ret.ab = Mirror(ret.ba)
        /\ ret.aa = "Equal"
        /\ (AtMostEqual(ret.ab) /\ AtMostEqual(ret.bc)) => AtMostEqual(ret.ac)

\* whether a name is a semantic version once its leading 'v's are taken off
IsVersionedName(s) == \E k \in 0..Len(s) : \E x \in SemVers \cup {BuildVersion} : s = WithLeadingV(k, x)

\* a chain through a versioned and two unversioned names has been compared
C7_Witness ==
    /\ ret # None
    /\ IsVersionedName(arg[1])
    /\ ~IsVersionedName(arg[2])
    /\ ~IsVersionedName(arg[3])
    /\ arg[2] # arg[3]
    /\ ret.ab = "Less"
    /\ ret.bc = "Less"
    /\ ret.ac = "Less"

\* C8: for semantic versions x > y and tag names tx, ty that are x and y
\* written with or without a leading 'v', cmp(tx, ty) is Less: the newer
\* version sorts first.
C8_NewerFirst ==
    ret # None =>
        \A i, j \in DOMAIN SemverAscending :
            (/\ i > j
             /\ arg[1] \in {SemverAscending[i], <<"v">> \o SemverAscending[i]}
             /\ arg[2] \in {SemverAscending[j], <<"v">> \o SemverAscending[j]})
                => ret.ab = "Less"

\* 1.0.0-b.11 written with a 'v' has been compared with 1.0.0-b.2 written
\* without: numeric pre-release identifiers, compared by value
C8_Witness ==
    /\ ret # None
    /\ arg[1] = <<"v">> \o SemverAscending[5]
    /\ arg[2] = SemverAscending[4]
    /\ ret.ab = "Less"
    /\ ret.ba = "Greater"

\* the parse attempt of the specification: a single leading 'v', if present,
\* is taken off and the remainder is a semantic version
StripSingleV(s) == IF s # EmptyStr /\ Head(s) = "v" THEN Tail(s) ELSE s

ParsesAsSemver(s) == StripSingleV(s) \in SemVers \cup {BuildVersion}

\* ascending byte-wise lexicographic comparison of two names
ByteLexLess(a, b) ==
    \E k \in 0..Len(a) :
        /\ k <= Len(b)
        /\ \A i \in 1..k : a[i] = b[i]
        /\ \/ k = Len(a) /\ k < Len(b)
           \/ k < Len(a) /\ k < Len(b) /\ Byte(a[k + 1]) < Byte(b[k + 1])

ByteLexOrder(a, b) ==
    IF a = b THEN "Equal" ELSE IF ByteLexLess(a, b) THEN "Less" ELSE "Greater"

\* C9: where exactly one name parses as a semantic version, the versioned
\* tag sorts before the unversioned one; where neither parses, cmp is the
\* ascending byte-wise comparison of the unmodified names.
C9_MixedAndFallback ==
    ret # None =>
        LET pa == ParsesAsSemver(arg[1])
            pb == ParsesAsSemver(arg[2])
        IN  /\ (pa /\ ~pb) => ret.ab = "Less"
            /\ (~pa /\ pb) => ret.ab = "Greater"
            /\ (~pa /\ ~pb) => ret.ab = ByteLexOrder(arg[1], arg[2])

-----------------------------------------------------------------------------
(* Specification of the caller's sort: print_tags sorts the fetched tags   *)
(* with tags.sort(), a stable sort by Tag::cmp.                            *)

\* the place of x in a sorted list: after every element that is not greater
RECURSIVE InsertSorted(_, _)
InsertSorted(sorted, x) ==
    IF sorted = <<>> THEN <<x>>
    ELSE IF TagCmp(x, Head(sorted)) = "Less" THEN <<x>> \o sorted
    ELSE <<Head(sorted)>> \o InsertSorted(Tail(sorted), x)

RECURSIVE SortFrom(_, _)
SortFrom(sorted, rest) ==
    IF rest = <<>> THEN sorted
    ELSE SortFrom(InsertSorted(sorted, Head(rest)), Tail(rest))

\* tags.sort()
Sort(list) == SortFrom(<<>>, list)

\* the tags of the scenario, in the order given
ScenarioTags ==
    << <<"v","1",".","2",".","0">>,
       <<"1",".","1","0",".","0">>,
       <<"l","a","t","e","s","t">>,
       <<"v","1",".","9",".","0">>,
       <<"a","l","p","h","a">> >>

\* every order in which the registry may have served them
OrdersOf(list) ==
    {[i \in DOMAIN list |-> list[f[i]]] :
        f \in {g \in [DOMAIN list -> DOMAIN list] :
                 \A i, j \in DOMAIN list : g[i] = g[j] => i = j}}

InitSort ==
    /\ FetchIdle
    /\ arg \in OrdersOf(ScenarioTags)
    /\ ret = None

CallSort ==
    /\ ret = None
    /\ ret' = Sort(arg)
    /\ UNCHANGED <<arg, fetchVars>>

NextSort == CallSort

SpecSort == InitSort /\ [][NextSort]_vars

\* C10 as stated: sorting ["v1.2.0","1.10.0","latest","v1.9.0","alpha"]
\* yields ["1.10.0","v1.2.0","v1.9.0","alpha","latest"].
C10_AsStated ==
    (ret # None /\ arg = ScenarioTags) =>
        ret = << <<"1",".","1","0",".","0">>,
                 <<"v","1",".","2",".","0">>,
                 <<"v","1",".","9",".","0">>,
                 <<"a","l","p","h","a">>,
                 <<"l","a","t","e","s","t">> >>

\* C10 amended: sorting ["v1.2.0","1.10.0","latest","v1.9.0","alpha"]
\* yields ["1.10.0","v1.9.0","v1.2.0","alpha","latest"]: versions newest
\* first, then the other names ascending.
C10_ScenarioSorted ==
    (ret # None /\ arg = ScenarioTags) =>
        ret = << <<"1",".","1","0",".","0">>,
                 <<"v","1",".","9",".","0">>,
                 <<"v","1",".","2",".","0">>,
                 <<"a","l","p","h","a">>,
                 <<"l","a","t","e","s","t">> >>

\* the scenario's list has been sorted
C10_Witness ==
    /\ arg = ScenarioTags
    /\ ret # None
    /\ Len(ret) = Len(ScenarioTags)
    /\ ret[1] = <<"1",".","1","0",".","0">>

-----------------------------------------------------------------------------
(* Image::fetch_tags: URLs, errors, and the values the registry, the token *)
(* realm and the file system may answer with                               *)

HttpsPrefix == <<"h","t","t","p","s",":","/","/">>

Registry1DockerIo == <<"r","e","g","i","s","t","r","y","-","1",".","d","o","c","k","e","r",".","i","o">>

LibraryPrefix == <<"l","i","b","r","a","r","y","/">>

V2Prefix == <<"/","v","2","/">>

TagsListN100 == <<"/","t","a","g","s","/","l","i","s","t","?","n","=","1","0","0">>

LastKey == <<"l","a","s","t">>

\* fetch_tags: let registry
EffectiveRegistry(self) ==
    IF self.registry = DockerIo THEN Registry1DockerIo ELSE self.registry

\* fetch_tags: let repository, without the library/ prefix
EffectiveRepositoryNoLibrary(self) == self.repository

\* fetch_tags: let repository
EffectiveRepository(self) ==
    IF self.registry = DockerIo /\ ~Contains(self.repository, "/")
    THEN LibraryPrefix \o self.repository
    ELSE self.repository

\* fetch_tags: let url
BaseUrl(self) ==
    HttpsPrefix \o EffectiveRegistry(self) \o V2Prefix
        \o EffectiveRepository(self) \o TagsListN100

HexDigit(n) ==
    CASE n = 10 -> "A" [] n = 11 -> "B" [] n = 12 -> "C" [] n = 13 -> "D"
      [] n = 14 -> "E" [] n = 15 -> "F"
      [] OTHER -> CHOOSE d \in Digits : DigitValue(d) = n

\* form_urlencoded::byte_serialize of one byte
FormEncodeByte(c) ==
    IF c \in Digits \cup Letters \cup {"*", "-", ".", "_"} THEN <<c>>
    ELSE IF c = " " THEN <<"+">>
    ELSE <<"%", HexDigit(Byte(c) \div 16), HexDigit(Byte(c) % 16)>>

\* form_urlencoded::byte_serialize
RECURSIVE FormEncode(_)
FormEncode(s) ==
    IF s = EmptyStr THEN EmptyStr ELSE FormEncodeByte(Head(s)) \o FormEncode(Tail(s))

\* the serialized pairs key=value joined by '&'
RECURSIVE FormEncodePairs(_)
FormEncodePairs(pairs) ==
    IF pairs = <<>> THEN EmptyStr
    ELSE FormEncode(pairs[1][1]) \o <<"=">> \o FormEncode(pairs[1][2])
            \o (IF Len(pairs) > 1 THEN <<"&">> \o FormEncodePairs(Tail(pairs)) ELSE EmptyStr)

\* Url::parse_with_params(input, pairs).to_string(), for an input the parser
\* leaves as it is (an https URL of a lower-case host and plain path
\* segments): the pairs are appended to the query
UrlParseWithParams(input, pairs) ==
    input \o (IF Contains(input, "?") THEN <<"&">> ELSE <<"?">>) \o FormEncodePairs(pairs)

\* one message of an anyhow error chain: a format string and its argument
Msg(text, a) == [text |-> text, arg |-> a]

\* Err(chain): chain[1] is the top-level message, the rest its causes
Err(chain) == [kind |-> "err", chain |-> chain]

Ok(value) == [kind |-> "ok", value |-> value]

\* a panic of the task running fetch_tags
Panicked == [kind |-> "panic"]

\* anyhow::Error::context
Context(text, a, e) == Err(<<Msg(text, a)>> \o e.chain)

\* the Display of a StatusCode
StatusText(status) ==
    CASE status = 200 -> <<"2","0","0"," ","O","K">>
      [] status = 401 -> <<"4","0","1"," ","U","n","a","u","t","h","o","r","i","z","e","d">>
      [] status = 403 -> <<"4","0","3"," ","F","o","r","b","i","d","d","e","n">>
      [] status = 404 -> <<"4","0","4"," ","N","o","t"," ","F","o","u","n","d">>
      [] status = 500 -> <<"5","0","0"," ","I","n","t","e","r","n","a","l"," ","S","e","r","v","e","r"," ","E","r","r","o","r">>

\* a header that is not present
NoHeader == [present |-> FALSE]

Header(value) == [present |-> TRUE, value |-> value]

BearerPrefix == <<"B","e","a","r","e","r"," ">>

BasicPrefix == <<"B","a","s","i","c"," ">>

\* fetch_tags: the request built at the top of the loop, with no
\* Authorization header whatever the token
BuildRequestNoAuth(u, t) == [url |-> u, authorization |-> NoHeader]

\* fetch_tags: the request built at the top of the loop
BuildRequest(u, t) ==
    [url |-> u,
     authorization |-> IF t # EmptyStr THEN Header(BearerPrefix \o t) ELSE NoHeader]

\* fetch_tags: page_len < 100
PageSize == 100

-----------------------------------------------------------------------------
(* Image::read_auth_token and Image::handle_auth_challenge *)

IndexDockerIoKey == <<"h","t","t","p","s",":","/","/","i","n","d","e","x",".","d","o","c","k","e","r",".","i","o","/","v","1","/">>

RealmKey == <<"r","e","a","l","m">>

\* read_auth_token on a given state of ~/.docker/config.json: the file may be
\* missing, may fail to parse, or holds the map auths
ReadAuthToken(self, file) ==
    IF ~file.readable THEN Ok(NoHeader)
    ELSE IF ~file.parses
    THEN Err(<<Msg("Failed to parse Docker config", EmptyStr),
               Msg("serde_json error", EmptyStr)>>)
    ELSE LET registry == IF self.registry = DockerIo THEN IndexDockerIoKey
                         ELSE self.registry
         IN  IF registry \in DOMAIN file.auths
             THEN Ok(Header(file.auths[registry]))
             ELSE Ok(NoHeader)

\* str.split_once(c)
SplitOnce(s, c) ==
    LET i == FirstIndexOf(s, c)
    IN  IF i = 0 THEN [found |-> FALSE]
        ELSE [found |-> TRUE,
              left |-> SubSeq(s, 1, i - 1),
              right |-> SubSeq(s, i + 1, Len(s))]

\* str.trim_matches(c): every leading and trailing c is removed
RECURSIVE TrimMatches(_, _)
TrimMatches(s, c) ==
    IF s # EmptyStr /\ Head(s) = c THEN TrimMatches(Tail(s), c)
    ELSE IF s # EmptyStr /\ s[Len(s)] = c THEN TrimMatches(SubSeq(s, 1, Len(s) - 1), c)
    ELSE s

\* str.trim() left out: the string as it is
TrimNothing(s) == s

\* str.trim()
Trim(s) == TrimMatches(s, " ")

\* the HashMap params, as a function of its keys: a later insert of the same
\* key replaces the earlier one
RECURSIVE InsertParams(_, _)
InsertParams(map, list) ==
    IF list = <<>> THEN map
    ELSE LET kv == SplitOnce(Head(list), "=")
         IN  IF kv.found
             THEN InsertParams(
                    [k \in DOMAIN map \cup {Trim(kv.left)} |->
                        IF k = Trim(kv.left) THEN TrimMatches(Trim(kv.right), "\"")
                        ELSE map[k]],
                    Tail(list))
             ELSE InsertParams(map, Tail(list))

EmptyMap == [k \in {} |-> EmptyStr]

\* Url::parse succeeds: an https URL with a host (anything else the model
\* offers as a realm is a relative URL without a base)
UrlParses(s) ==
    /\ Len(s) > Len(HttpsPrefix)
    /\ SubSeq(s, 1, Len(HttpsPrefix)) = HttpsPrefix
    /\ s[Len(HttpsPrefix) + 1] \in Letters

\* the orders in which a HashMap of the given keys may be iterated
KeyOrders(keys) ==
    {o \in [1..Cardinality(keys) -> keys] :
        \A i, j \in DOMAIN o : o[i] = o[j] => i = j}

\* the token request, the credential being put in the query of the URL and
\* not in a header
TokenRequestInQuery(u, auth_token) ==
    [url |-> IF auth_token.present
             THEN UrlParseWithParams(u, <<<<<<"a","u","t","h">>, auth_token.value>>>>)
             ELSE u,
     authorization |-> NoHeader]

\* handle_auth_challenge: let mut req, for the URL u and what read_auth_token
\* returned
TokenRequest(u, auth_token) ==
    [url |-> u,
     authorization |-> IF auth_token.present
                       THEN Header(BasicPrefix \o auth_token.value)
                       ELSE NoHeader]

\* handle_auth_challenge(hdr), given what it meets: the state of the config
\* file, the realm's answer, and the order (a sequence of keys) in which
\* params is iterated.
\* request is the token request it sent, if it got that far.
HandleAuthChallenge(self, h, file, answer, order) ==
    LET split == SplitOnce(h, " ")
    IN  IF ~split.found
        THEN [request |-> NoHeader,
              result |-> Err(<<Msg("Invalid authentication header: ", h)>>)]
        ELSE
        LET scheme == split.left
            params == InsertParams(EmptyMap, Split(split.right, ","))
        IN  IF RealmKey \notin DOMAIN params
            THEN [request |-> NoHeader,
                  result |-> Err(<<Msg("No realm found in WWW-Authenticate header: ", h)>>)]
            ELSE
            LET realm == params[RealmKey]
                rest == [k \in DOMAIN params \ {RealmKey} |-> params[k]]
                o == SelectSeq(order, LAMBDA k : k \in DOMAIN rest)
            IN  IF ~UrlParses(realm)
                THEN [request |-> NoHeader,
                      result |-> Err(<<Msg("Failed to parse realm URL: ", realm),
                                       Msg("relative URL without a base", EmptyStr)>>)]
                ELSE
                LET u == UrlParseWithParams(realm, [i \in DOMAIN o |-> <<o[i], rest[o[i]]>>])
                    cred == ReadAuthToken(self, file)
                IN  IF cred.kind = "err"
                    THEN [request |-> NoHeader, result |-> cred]
                    ELSE
                    LET req == TokenRequest(u, cred.value)
                    IN  [request |-> Header(req),
                         result |->
                            IF answer.kind = "error"
                            THEN Err(<<Msg("Failed to fetch token from ", u),
                                       Msg("error sending request", EmptyStr)>>)
                            ELSE IF answer.status = 200
                            THEN IF answer.body.decodes
                                 THEN Ok(<<scheme, answer.body.token>>)
                                 ELSE Err(<<Msg("Failed to parse token response from ", u),
                                            Msg("error decoding response body", EmptyStr)>>)
                            ELSE Err(<<Msg("Failed to authenticate: ",
                                           StatusText(answer.status))>>)]

-----------------------------------------------------------------------------
(* Specification of fetch_tags: one fetch of an image against a registry,  *)
(* a token realm and a config file that may answer anything.               *)

\* the greatest number of tags-list requests of one fetch
MaxRequests == 4

QuayIo == <<"q","u","a","y",".","i","o">>

Registries == {DockerIo, QuayIo}

Repositories == {<<"n","g","i","n","x">>, <<"p","r","o","m","/","n","o","d","e">>}

Images == {NewImage(r, p) : r \in Registries, p \in Repositories}

\* tag names a registry may serve; the second needs escaping in a query
TagPool == {<<"a">>, <<"b"," ","+">>}

\* a page of n tags: fill, ..., fill, last
Page(n, fill, last) == [i \in 1..n |-> IF i = n THEN last ELSE fill]

PageLens == {0, 1, PageSize, PageSize + 1}

\* the pages a registry may serve: of each length, ending in each tag
TagPages ==
    {Page(n, p[1], p[2]) : n \in PageLens,
                           p \in {q \in TagPool \X TagPool : q[1] # q[2]}}

\* the bodies of a 200 answer to a tags-list request
TagsBodies == {[decodes |-> FALSE]} \cup {[decodes |-> TRUE, tags |-> p] : p \in TagPages}

\* WWW-Authenticate values a registry may send
BearerChallenge == <<"B","e","a","r","e","r"," ","r","e","a","l","m","=","\"","h","t","t","p","s",":","/","/","a",".","i","o","/","t","\"",",","s","e","r","v","i","c","e","=","\"","s","\"",",","s","c","o","p","e","=","\"","p","\"">>

BasicChallenge == <<"B","a","s","i","c"," ","r","e","a","l","m","=","\"","h","t","t","p","s",":","/","/","a",".","i","o","/","t","\"",","," ","s","e","r","v","i","c","e","=","\"","s","\"">>

NoSpaceChallenge == <<"B","e","a","r","e","r">>

NoRealmChallenge == <<"B","e","a","r","e","r"," ","s","e","r","v","i","c","e","=","\"","s","\"">>

RelativeRealmChallenge == <<"B","e","a","r","e","r"," ","r","e","a","l","m","=","\"","t","\"">>

OpaqueChallenge == <<"B", "x80">>

Challenges == {BearerChallenge, BasicChallenge, NoSpaceChallenge, NoRealmChallenge,
               RelativeRealmChallenge, OpaqueChallenge}

ParamKeys == {<<"s","e","r","v","i","c","e">>, <<"s","c","o","p","e">>}

\* the credential of the config file
Credential == <<"c","=">>

ConfigFiles ==
    {[readable |-> FALSE],
     [readable |-> TRUE, parses |-> FALSE],
     [readable |-> TRUE, parses |-> TRUE, auths |-> EmptyMap],
     [readable |-> TRUE, parses |-> TRUE,
      auths |-> [k \in {IndexDockerIoKey, QuayIo} |-> Credential]]}

\* tokens a realm may issue
Tokens == {EmptyStr, <<"t","k">>}

\* the answers of the token realm
RealmAnswers ==
    {[kind |-> "error"]}
        \cup {[kind |-> "http", status |-> 403]}
        \cup {[kind |-> "http", status |-> 200, body |-> [decodes |-> FALSE]]}
        \cup {[kind |-> "http", status |-> 200, body |-> [decodes |-> TRUE, token |-> t]] :
                t \in Tokens}

\* statuses other than 200, 401 and 404
OtherStatuses == {403, 500}

\* HeaderValue::to_str: visible ASCII only
ToStrOk(h) == \A i \in DOMAIN h : Byte(h[i]) >= 32 /\ Byte(h[i]) < 127

Init ==
    /\ image \in Images
    /\ pc = "start"
    /\ url = EmptyStr
    /\ next_url = EmptyStr
    /\ token = EmptyStr
    /\ tags = <<>>
    /\ hdr = EmptyStr
    /\ result = None
    /\ requests = <<>>
    /\ responses = <<>>
    /\ authruns = <<>>
    /\ arg = <<>>
    /\ ret = None

\* fetch_tags, up to the loop
Start ==
    /\ pc = "start"
    /\ tags' = <<>>
    /\ token' = EmptyStr
    /\ url' = BaseUrl(image)
    /\ next_url' = BaseUrl(image)
    /\ pc' = "send"
    /\ UNCHANGED <<image, hdr, result, requests, responses, authruns, arg, ret>>

\* the top of the loop: the request is built and sent (at most max requests
\* are followed)
SendRequest(max) ==
    /\ pc = "send"
    /\ Len(requests) < max
    /\ requests' = Append(requests, BuildRequest(next_url, token))
    /\ pc' = "await"
    /\ UNCHANGED <<image, url, next_url, token, tags, hdr, result, responses,
                   authruns, arg, ret>>

\* fetch_tags returns
Return(r) ==
    /\ result' = r
    /\ pc' = "done"

\* send() fails
RecvError ==
    /\ pc = "await"
    /\ responses' = Append(responses, [kind |-> "error"])
    /\ Return(Err(<<Msg("Failed to fetch tags from ", next_url),
                    Msg("error sending request", EmptyStr)>>))
    /\ UNCHANGED <<image, url, next_url, token, tags, hdr, requests, authruns,
                   arg, ret>>

\* Vec::extend putting the page before the tags already held
ExtendFront(list, page_tags) == page_tags \o list

\* Vec::extend
Extend(list, page_tags) == list \o page_tags

\* the rest of the loop body after a decoded 200, the next URL being made
\* from the current URL instead of the base URL
AfterPageFromCurrent(page_tags) ==
    LET page_len == Len(page_tags)
    IN  IF page_len = 0
        THEN /\ Return(Panicked)
             /\ UNCHANGED <<tags, next_url>>
        ELSE LET last_tag == page_tags[page_len]
             IN  /\ tags' = Extend(tags, page_tags)
                 /\ IF page_len < PageSize
                    THEN /\ Return(Ok(tags'))
                         /\ UNCHANGED next_url
                    ELSE /\ next_url' = UrlParseWithParams(next_url, <<<<LastKey, last_tag>>>>)
                         /\ pc' = "send"
                         /\ UNCHANGED result

\* the rest of the loop body after a decoded 200: what becomes of tags,
\* next_url and the fetch
AfterPage(page_tags) ==
    LET page_len == Len(page_tags)
    IN  IF page_len = 0
        THEN \* page_tags[page_len - 1]: 0 - 1 overflows usize (a panic where
             \* overflow is checked) or wraps to an index out of bounds (a panic)
             /\ Return(Panicked)
             /\ UNCHANGED <<tags, next_url>>
        ELSE LET last_tag == page_tags[page_len]
             IN  /\ tags' = Extend(tags, page_tags)
                 /\ IF page_len < PageSize
                    THEN /\ Return(Ok(tags'))
                         /\ UNCHANGED next_url
                    ELSE /\ next_url' = UrlParseWithParams(url, <<<<LastKey, last_tag>>>>)
                         /\ pc' = "send"
                         /\ UNCHANGED result

\* StatusCode::OK, with a body of bodies
Recv200(bodies) ==
    /\ pc = "await"
    /\ \E body \in bodies :
        /\ responses' = Append(responses,
                [kind |-> "http", status |-> 200, www_authenticate |-> NoHeader,
                 body |-> body])
        /\ IF body.decodes
           THEN AfterPage(body.tags)
           ELSE /\ Return(Err(<<Msg("Failed to parse JSON from ", next_url),
                                Msg("error decoding response body", EmptyStr)>>))
                /\ UNCHANGED <<tags, next_url>>
    /\ UNCHANGED <<image, url, token, hdr, requests, authruns, arg, ret>>

\* StatusCode::UNAUTHORIZED if the response has a WWW-Authenticate header,
\* one of challenges
Recv401Challenge(challenges) ==
    /\ pc = "await"
    /\ \E h \in challenges :
        /\ responses' = Append(responses,
                [kind |-> "http", status |-> 401, www_authenticate |-> Header(h)])
        /\ IF token # EmptyStr
           THEN /\ Return(Context("Image not found", EmptyStr,
                            Err(<<Msg("Got HTTP 401 with authentication token", EmptyStr)>>)))
                /\ UNCHANGED hdr
           ELSE IF ~ToStrOk(h)
           THEN /\ Return(Err(<<Msg("Failed to parse WWW-Authenticate header", EmptyStr),
                                Msg("failed to convert header to a str", EmptyStr)>>))
                /\ UNCHANGED hdr
           ELSE /\ hdr' = h
                /\ pc' = "auth"
                /\ UNCHANGED result
    /\ UNCHANGED <<image, url, next_url, token, tags, requests, authruns, arg, ret>>

\* self.handle_auth_challenge(hdr).await.context("Image not found")?; continue
\* The negotiation meets a config file of files, an answer of answers and an
\* iteration order of orders.
Negotiate(files, answers, orders) ==
    /\ pc = "auth"
    /\ \E file \in files, answer \in answers, order \in orders :
        LET run == HandleAuthChallenge(image, hdr, file, answer, order)
        IN  /\ authruns' = Append(authruns, [after |-> Len(requests), hdr |-> hdr,
                                              request |-> run.request,
                                              result |-> run.result])
            /\ IF run.result.kind = "ok"
               THEN /\ token' = run.result.value[2]
                    /\ pc' = "send"
                    /\ UNCHANGED result
               ELSE /\ Return(Context("Image not found", EmptyStr, run.result))
                    /\ UNCHANGED token
    /\ UNCHANGED <<image, url, next_url, tags, hdr, requests, responses, arg, ret>>

\* StatusCode::NOT_FOUND
Recv404 ==
    /\ pc = "await"
    /\ responses' = Append(responses,
            [kind |-> "http", status |-> 404, www_authenticate |-> NoHeader])
    /\ Return(Err(<<Msg("Image not found", EmptyStr)>>))
    /\ UNCHANGED <<image, url, next_url, token, tags, hdr, requests, authruns,
                   arg, ret>>

\* status => Err(anyhow!(status)): every other status, and a 401 without a
\* WWW-Authenticate header
RecvOther ==
    /\ pc = "await"
    /\ \E status \in OtherStatuses \cup {401} :
        /\ responses' = Append(responses,
                [kind |-> "http", status |-> status, www_authenticate |-> NoHeader])
        /\ Return(Err(<<Msg("", StatusText(status))>>))
    /\ UNCHANGED <<image, url, next_url, token, tags, hdr, requests, authruns,
                   arg, ret>>

\* In this specification the registry serves every page of TagPages; the
\* negotiation is met with a well-formed, a realm-less and a non-ASCII challenge, no
\* config file, and a realm that refuses or issues a token, which may be empty.
PagingChallenges == {BearerChallenge, NoRealmChallenge, OpaqueChallenge}

PagingFiles == {f \in ConfigFiles : ~f.readable}

PagingAnswers == {a \in RealmAnswers : a.kind = "http" /\ (a.status = 200 => a.body.decodes)}

PagingOrders == {CHOOSE o \in KeyOrders(ParamKeys) : TRUE}

Next ==
    \/ Start
    \/ SendRequest(MaxRequests)
    \/ RecvError
    \/ Recv200(TagsBodies)
    \/ Recv401Challenge(PagingChallenges)
    \/ Negotiate(PagingFiles, PagingAnswers, PagingOrders)
    \/ Recv404
    \/ RecvOther

Spec == Init /\ [][Next]_vars

-----------------------------------------------------------------------------
(* What the registry sees of a request, and what the fetch has received *)

\* the characters of the model
ByteChars ==
    Digits \cup Letters
        \cup {" ", "\"", "%", "&", "*", "+", ",", "-", ".", "/", ":", "=", "?", "_"}

HexValue(c) == IF c \in Digits THEN DigitValue(c) ELSE Byte(c) - Byte("A") + 10

\* the decoding of a query component by the receiving server: '+' is a
\* space, %XY the byte XY
RECURSIVE FormDecode(_)
FormDecode(s) ==
    IF s = EmptyStr THEN EmptyStr
    ELSE IF Head(s) = "+" THEN <<" ">> \o FormDecode(Tail(s))
    ELSE IF Head(s) = "%" /\ Len(s) >= 3
    THEN <<CHOOSE c \in ByteChars : Byte(c) = 16 * HexValue(s[2]) + HexValue(s[3])>>
            \o FormDecode(SubSeq(s, 4, Len(s)))
    ELSE <<Head(s)>> \o FormDecode(Tail(s))

HasPrefix(s, p) == Len(s) >= Len(p) /\ SubSeq(s, 1, Len(p)) = p

\* the parts of an https URL: host, path, and the decoded query pairs
AfterScheme(u) == SubSeq(u, Len(HttpsPrefix) + 1, Len(u))

UrlHost(u) == SubSeq(AfterScheme(u), 1, FirstIndexOf(AfterScheme(u), "/") - 1)

UrlPath(u) ==
    LET rest == AfterScheme(u)
        stop == IF Contains(rest, "?") THEN FirstIndexOf(rest, "?") - 1 ELSE Len(rest)
    IN  SubSeq(rest, FirstIndexOf(rest, "/"), stop)

UrlQuery(u) ==
    IF Contains(u, "?") THEN SubSeq(u, FirstIndexOf(u, "?") + 1, Len(u)) ELSE EmptyStr

UrlQueryPairs(u) ==
    LET parts == IF UrlQuery(u) = EmptyStr THEN <<>> ELSE Split(UrlQuery(u), "&")
    IN  [i \in DOMAIN parts |->
            LET eq == FirstIndexOf(parts[i], "=")
            IN  IF eq = 0 THEN <<FormDecode(parts[i]), EmptyStr>>
                ELSE <<FormDecode(SubSeq(parts[i], 1, eq - 1)),
                       FormDecode(SubSeq(parts[i], eq + 1, Len(parts[i])))>>]

\* the values a URL's query gives to key, in order
QueryValues(u, key) ==
    LET hits == SelectSeq(UrlQueryPairs(u), LAMBDA kv : kv[1] = key)
    IN  [i \in DOMAIN hits |-> hits[i][2]]

\* the tags arrays of the 200 responses among resps, in the order received
IsPage(r) == r.kind = "http" /\ r.status = 200 /\ r.body.decodes

PagesOf(resps) ==
    LET hits == SelectSeq(resps, IsPage)
    IN  [i \in DOMAIN hits |-> hits[i].body.tags]

RECURSIVE Concat(_)
Concat(lists) == IF lists = <<>> THEN <<>> ELSE Head(lists) \o Concat(Tail(lists))

\* the pages received before request i was issued
PagesBefore(i) == PagesOf(SubSeq(responses, 1, i - 1))

TopMessage == result.chain[1]

ImageNotFound == Msg("Image not found", EmptyStr)

\* C1: a 404 answer to a tags-list request, with or without a token held,
\* and any 401 answer received while a bearer token is held, end the fetch
\* with an error whose top-level message is exactly "Image not found".
C1_NotFoundMessage ==
    \A i \in DOMAIN responses :
        (/\ responses[i].kind = "http"
         /\ \/ responses[i].status = 404
            \/ responses[i].status = 401 /\ requests[i].authorization.present)
            => /\ pc = "done"
               /\ result.kind = "err"
               /\ TopMessage = ImageNotFound

\* the claim's R and P
ClaimedHost ==
    IF image.registry = <<"d","o","c","k","e","r",".","i","o">>
    THEN <<"r","e","g","i","s","t","r","y","-","1",".","d","o","c","k","e","r",".","i","o">>
    ELSE image.registry

ClaimedRepository ==
    IF image.registry = <<"d","o","c","k","e","r",".","i","o">> /\ SlashCount(image.repository) = 0
    THEN <<"l","i","b","r","a","r","y","/">> \o image.repository
    ELSE image.repository

RequestsTargetTagsList ==
    \A i \in DOMAIN requests :
        LET u == requests[i].url
        IN  /\ HasPrefix(u, <<"h","t","t","p","s",":","/","/">>)
            /\ UrlHost(u) = ClaimedHost
            /\ UrlPath(u) = <<"/","v","2","/">> \o ClaimedRepository \o <<"/","t","a","g","s","/","l","i","s","t">>
            /\ QueryValues(u, <<"n">>) = <<<<"1","0","0">>>>

\* C3: every tags-list request targets https://<R>/v2/<P>/tags/list with
\* n=100, R being registry-1.docker.io for docker.io and the registry
\* otherwise, P being library/<repository> for a docker.io repository without
\* '/' and the repository otherwise; and the fetch leaves the Image as it was.
C3_RequestTarget ==
    /\ [](RequestsTargetTagsList)
    /\ [][image' = image]_vars

\* a later page of a single-segment docker.io repository has been requested
C3_Witness ==
    /\ image.registry = DockerIo
    /\ ~Contains(image.repository, "/")
    /\ \E i \in DOMAIN requests :
        /\ i > 1
        /\ QueryValues(requests[i].url, LastKey) # <<>>
        /\ HasPrefix(UrlPath(requests[i].url), V2Prefix \o LibraryPrefix)

\* C4: when fetch_tags succeeds the returned list is the concatenation, in
\* request order, of the tags arrays of all 200 responses received; and every
\* request issued after a page carries a last cursor equal to the final
\* element of the page immediately before it.
C4_Pagination ==
    /\ result.kind = "ok" => result.value = Concat(PagesOf(responses))
    /\ \A i \in DOMAIN requests :
            LET before == PagesBefore(i)
            IN  before # <<>> =>
                    LET page == before[Len(before)]
                    IN  QueryValues(requests[i].url, LastKey) = <<page[Len(page)]>>

\* a fetch of three pages, the last one short, has succeeded
C4_Witness ==
    /\ result.kind = "ok"
    /\ Len(PagesOf(responses)) = 3
    /\ Len(result.value) > 2 * PageSize
    /\ \E i \in DOMAIN requests : requests[i].authorization.present

\* C5: a 200 response whose tags array is empty ends fetch_tags successfully:
\* the result is the tags of the earlier pages (none, for a first page).
C5_EmptyPageSucceeds ==
    \A i \in DOMAIN responses :
        (IsPage(responses[i]) /\ responses[i].body.tags = <<>>)
            => /\ pc = "done"
               /\ result = Ok(Concat(PagesBefore(i)))

\* C6, first part: within one fetch_tags invocation, whatever the registry and
\* the token realm answer, handle_auth_challenge is run at most once.
C6_NegotiatesAtMostOnce == Len(authruns) <= 1

\* The second part of C6: the only tags-list URL requested twice in a row is
\* the one re-issued right after a successful negotiation. (A registry whose
\* next full page ends in the same tag is asked the same URL again.)
C6_RepeatsOnlyAfterNegotiation ==
    \A i \in DOMAIN requests :
        (i > 1 /\ requests[i].url = requests[i - 1].url)
            => \E k \in DOMAIN authruns :
                /\ authruns[k].after = i - 1
                /\ authruns[k].result.kind = "ok"

-----------------------------------------------------------------------------
(* Ties and the leading 'v', checked under SpecCmp *)

\* C11: cmp(a, b) is Equal only when the names of a and b are byte-equal;
\* two spellings of one version, with and without a leading 'v', do not tie.
C11_EqualOnlyIfSameName ==
    ret # None => (ret.ab = "Equal" => arg[1] = arg[2])

\* the number of leading 'v' characters of a name
RECURSIVE LeadingVCount(_)
LeadingVCount(s) ==
    IF s # EmptyStr /\ Head(s) = "v" THEN 1 + LeadingVCount(Tail(s)) ELSE 0

\* two or more leading 'v's followed by a semantic version
IsManyVVersion(s) ==
    /\ LeadingVCount(s) >= 2
    /\ SubSeq(s, LeadingVCount(s) + 1, Len(s)) \in SemVers \cup {BuildVersion}

\* C12: at most a single leading 'v' is stripped before the parse: a name of
\* two or more leading 'v's followed by a semantic version is unversioned, so
\* it sorts after every versioned name and byte-wise among the unversioned.
C12_StripsSingleV ==
    ret # None =>
        (IsManyVVersion(arg[1]) =>
            IF ParsesAsSemver(arg[2]) THEN ret.ab = "Greater"
            ELSE ret.ab = ByteLexOrder(arg[1], arg[2]))

-----------------------------------------------------------------------------
(* The Authorization header of the tags-list requests, checked under Spec *)

\* the negotiations that had returned a token before request i was issued
TokensBefore(i) ==
    LET runs == SelectSeq(authruns, LAMBDA r : r.after < i /\ r.result.kind = "ok")
    IN  [k \in DOMAIN runs |-> runs[k].result.value[2]]

\* C13: each tags-list request issued before a token is obtained carries no
\* Authorization header; once a negotiation has returned a token, every later
\* request of the fetch carries Authorization: Bearer <that token>.
C13_BearerOnceObtained ==
    \A i \in DOMAIN requests :
        IF TokensBefore(i) = <<>>
        THEN ~requests[i].authorization.present
        ELSE /\ requests[i].authorization.present
             /\ requests[i].authorization.value
                    = <<"B","e","a","r","e","r"," ">> \o TokensBefore(i)[1]

-----------------------------------------------------------------------------
(* The query of the next-page URLs, checked under Spec *)

\* C14: every next-page URL is the base URL (.../tags/list?n=100) plus one
\* fresh last parameter, never the current URL extended: each request URL has
\* exactly one n parameter and at most one last parameter.
C14_FreshCursor ==
    \A i \in DOMAIN requests :
        LET u == requests[i].url
            base == requests[1].url
        IN  /\ Len(QueryValues(u, <<"n">>)) = 1
            /\ Len(QueryValues(u, <<"l","a","s","t">>)) <= 1
            /\ \/ u = base
               \/ /\ HasPrefix(u, base)
                  /\ Len(UrlQueryPairs(u)) = 2
                  /\ UrlQueryPairs(u)[1] = <<<<"n">>, <<"1","0","0">>>>
                  /\ UrlQueryPairs(u)[2][1] = <<"l","a","s","t">>

\* a third page has been requested, its cursor differing from the second's
C14_Witness ==
    /\ Len(requests) >= 3
    /\ Len(PagesBefore(3)) = 2
    /\ Len(QueryValues(requests[2].url, LastKey)) = 1
    /\ Len(QueryValues(requests[3].url, LastKey)) = 1
    /\ QueryValues(requests[2].url, LastKey) # QueryValues(requests[3].url, LastKey)

\* C15: a next-page request is issued only after a 200 page of exactly 100
\* entries; a 200 page of fewer than 100 entries ends the fetch successfully
\* and no further request is issued.
C15_NextPageOnlyAfterFullPage ==
    /\ \A i \in DOMAIN requests :
            LET before == PagesBefore(i)
            IN  before # <<>> => Len(before[Len(before)]) = 100
    /\ \A j \in DOMAIN responses :
            (IsPage(responses[j]) /\ Len(responses[j].body.tags) < 100)
                => /\ pc = "done"
                   /\ result.kind = "ok"
                   /\ Len(requests) = j

-----------------------------------------------------------------------------
(* Specification of the negotiation: a fetch of a few requests against a   *)
(* registry that may send every challenge of Challenges, every state of    *)
(* the config file, every answer of the token realm and every iteration    *)
(* order of the challenge parameters.                                      *)

\* the greatest number of tags-list requests of one fetch in SpecAuth
MaxAuthRequests == 2

\* the registry serves a short page or a full one
AuthBodies == {b \in TagsBodies : b.decodes /\ Len(b.tags) \in {1, PageSize}}

NextAuth ==
    \/ Start
    \/ SendRequest(MaxAuthRequests)
    \/ RecvError
    \/ Recv200(AuthBodies)
    \/ Recv401Challenge(Challenges)
    \/ Negotiate(ConfigFiles, RealmAnswers, KeyOrders(ParamKeys))
    \/ Recv404
    \/ RecvOther

SpecAuth == Init /\ [][NextAuth]_vars

\* response i is a 401 carrying WWW-Authenticate, to an unauthenticated request
IsChallenge(i) ==
    /\ responses[i].kind = "http"
    /\ responses[i].status = 401
    /\ responses[i].www_authenticate.present
    /\ ~requests[i].authorization.present

\* the challenge of response i has been dealt with and gave no token
NegotiationFailed(i) ==
    /\ IsChallenge(i)
    /\ pc # "auth"
    /\ ~\E k \in DOMAIN authruns :
            authruns[k].after = i /\ authruns[k].result.kind = "ok"

\* C16: when an unauthenticated request gets a 401 carrying WWW-Authenticate
\* and the negotiation that follows fails for any reason, fetch_tags ends with
\* an error whose top-level message is "Image not found", the failure being
\* attached as its cause, and no further registry request is issued.
C16_NegotiationFailure ==
    \A i \in DOMAIN responses :
        NegotiationFailed(i)
            => /\ pc = "done"
               /\ result.kind = "err"
               /\ TopMessage = ImageNotFound
               /\ Len(result.chain) >= 2
               /\ Len(requests) = i

-----------------------------------------------------------------------------
(* Specification of handle_auth_challenge alone: one call on every image,  *)
(* header value, config file, realm answer and iteration order.            *)

\* handle_auth_challenge takes a &str: the header values that are text
ChallengeTexts == {h \in Challenges : ToStrOk(h)}

\* the answers of the token realm, with more statuses than RealmAnswers
ChallengeAnswers ==
    RealmAnswers \cup {[kind |-> "http", status |-> st] : st \in {401, 404, 500}}

InitChallenge ==
    /\ FetchIdle
    /\ arg \in Images \X ChallengeTexts \X ConfigFiles \X ChallengeAnswers
                \X KeyOrders(ParamKeys)
    /\ ret = None

\* self.handle_auth_challenge(hdr)
CallHandleAuthChallenge ==
    /\ ret = None
    /\ ret' = HandleAuthChallenge(arg[1], arg[2], arg[3], arg[4], arg[5])
    /\ UNCHANGED <<arg, fetchVars>>

NextChallenge == CallHandleAuthChallenge

SpecChallenge == InitChallenge /\ [][NextChallenge]_vars

\* what each header value says, read by hand: its scheme and its parameters
ClaimedScheme(h) ==
    IF h = BasicChallenge THEN <<"B","a","s","i","c">> ELSE <<"B","e","a","r","e","r">>

ClaimedParams(h) ==
    CASE h = BearerChallenge ->
            {<<<<"r","e","a","l","m">>, <<"h","t","t","p","s",":","/","/","a",".","i","o","/","t">>>>,
             <<<<"s","e","r","v","i","c","e">>, <<"s">>>>,
             <<<<"s","c","o","p","e">>, <<"p">>>>}
      [] h = BasicChallenge ->
            {<<<<"r","e","a","l","m">>, <<"h","t","t","p","s",":","/","/","a",".","i","o","/","t">>>>,
             <<<<"s","e","r","v","i","c","e">>, <<"s">>>>}
      [] h = NoRealmChallenge -> {<<<<"s","e","r","v","i","c","e">>, <<"s">>>>}
      [] h = RelativeRealmChallenge -> {<<<<"r","e","a","l","m">>, <<"t">>>>}
      [] OTHER -> {}

ClaimedRealms(h) == {kv[2] : kv \in {p \in ClaimedParams(h) : p[1] = <<"r","e","a","l","m">>}}

ClaimedForwarded(h) == {p \in ClaimedParams(h) : p[1] # <<"r","e","a","l","m">>}

\* a URL without its query
UrlWithoutQuery(u) ==
    IF Contains(u, "?") THEN SubSeq(u, 1, FirstIndexOf(u, "?") - 1) ELSE u

\* C17: handle_auth_challenge sends a token request only when the challenge
\* has a realm parameter; the request goes to the realm URL with every other
\* parameter forwarded as a query argument and realm not forwarded; it carries
\* Authorization: Basic <auth> exactly when the credential reader returned a
\* credential; (scheme, token) is returned only on a 200 answer, and every
\* other status fails with "Failed to authenticate: <status>".
C17_TokenRequest ==
    ret # None =>
        LET h == arg[2]
            answer == arg[4]
            cred == ReadAuthToken(arg[1], arg[3])
        IN  /\ ret.request.present => ClaimedRealms(h) # {}
            /\ ClaimedRealms(h) = {} => ret.result.kind = "err"
            /\ ret.request.present =>
                    LET req == ret.request.value
                        pairs == UrlQueryPairs(req.url)
                    IN  /\ UrlWithoutQuery(req.url) \in ClaimedRealms(h)
                        /\ {pairs[i] : i \in DOMAIN pairs} = ClaimedForwarded(h)
                        /\ Len(pairs) = Cardinality(ClaimedForwarded(h))
                        /\ cred.kind = "ok"
                        /\ IF cred.value.present
                           THEN req.authorization
                                    = Header(<<"B","a","s","i","c"," ">> \o cred.value.value)
                           ELSE ~req.authorization.present
            /\ ret.result.kind = "ok" =>
                    /\ ret.request.present
                    /\ answer.kind = "http"
                    /\ answer.status = 200
                    /\ ret.result.value = <<ClaimedScheme(h), answer.body.token>>
            /\ (ret.request.present /\ answer.kind = "http" /\ answer.status # 200) =>
                    ret.result = Err(<<Msg("Failed to authenticate: ", StatusText(answer.status))>>)

\* a Basic challenge whose parameters are separated by ", " has been answered
\* with a token, the request carrying the credential of the config file
C17_Witness ==
    /\ ret # None
    /\ arg[2] = BasicChallenge
    /\ ret.result.kind = "ok"
    /\ ret.request.value.authorization = Header(BasicPrefix \o Credential)
    /\ Len(UrlQueryPairs(ret.request.value.url)) = 1

-----------------------------------------------------------------------------
(* The credential of the config file, checked under SpecAuth *)

\* whether sub occurs in s
ContainsSub(s, sub) ==
    \E i \in 1..(Len(s) + 1 - Len(sub)) : SubSeq(s, i, i + Len(sub) - 1) = sub

\* whether a text shows the credential, as written or in a decoded query
\* argument
ShowsCredential(s) ==
    \/ ContainsSub(s, <<"c","=">>)
    \/ \E i \in DOMAIN UrlQueryPairs(s) :
            \/ ContainsSub(UrlQueryPairs(s)[i][1], <<"c","=">>)
            \/ ContainsSub(UrlQueryPairs(s)[i][2], <<"c","=">>)

\* C18: whatever fetch_tags returns and whatever the config file holds, the
\* Basic credential read from it appears in no message of the returned error
\* chain; it is only ever placed in the Authorization header of the request
\* to the token realm.
C18_CredentialConfidential ==
    /\ result.kind = "err" =>
            \A k \in DOMAIN result.chain : ~ShowsCredential(result.chain[k].arg)
    /\ \A i \in DOMAIN requests :
            /\ ~ShowsCredential(requests[i].url)
            /\ requests[i].authorization.present
                    => ~ShowsCredential(requests[i].authorization.value)
    /\ \A k \in DOMAIN authruns :
            authruns[k].request.present
                => ~ShowsCredential(authruns[k].request.value.url)

\* a fetch has failed after a token request that carried the credential
C18_Witness ==
    /\ result.kind = "err"
    /\ Len(result.chain) >= 2
    /\ \E k \in DOMAIN authruns :
            /\ authruns[k].request.present
            /\ authruns[k].request.value.authorization.present
            /\ ShowsCredential(authruns[k].request.value.authorization.value)
            /\ authruns[k].result.kind = "err"

\* C20: the scheme of the challenge does not influence later requests: after
\* a negotiation has succeeded, the re-issued request and every later one use
\* Authorization: Bearer <token>, whatever scheme the challenge named.
C20_SchemeIgnored ==
    \A k \in DOMAIN authruns :
        authruns[k].result.kind = "ok" =>
            LET scheme == authruns[k].result.value[1]
                issued == authruns[k].result.value[2]
            IN  /\ scheme \in {<<"B","e","a","r","e","r">>, <<"B","a","s","i","c">>}
                /\ \A i \in DOMAIN requests :
                        i > authruns[k].after =>
                            requests[i].authorization
                                = Header(<<"B","e","a","r","e","r"," ">> \o issued)

-----------------------------------------------------------------------------
(* Specification of termination: one fetch against a registry that holds a *)
(* finite list of tags (arg) and serves it in pages of at most 100 after   *)
(* the cursor, and a token realm that answers every request. The requests  *)
(* and answers are not recorded here (requests, responses and authruns     *)
(* stay empty), so that a fetch that never ends is a cycle of states.      *)

\* the decimal numeral of n, a tag name
RECURSIVE Numeral(_)
Numeral(n) ==
    IF n < 10 THEN <<HexDigit(n)>> ELSE Numeral(n \div 10) \o <<HexDigit(n % 10)>>

\* the tag list of a registry: the names 1, 2, ..., n
TagList(n) == [i \in 1..n |-> Numeral(i)]

\* the lengths of the lists: empty, short, one full page, more than a page
LiveListLens == {0, 1, PageSize, PageSize + 50}

RegistryLists == {TagList(n) : n \in LiveListLens}

\* the page the registry serves for a tags-list URL: the entries after the
\* cursor last (the entry named k is the k-th of the list), at most n = 100
\* of them
ServedPage(list, u) ==
    LET cursor == QueryValues(u, LastKey)
        from == IF cursor = <<>> THEN 0
                ELSE IF DecimalValue(cursor[1]) < Len(list)
                THEN DecimalValue(cursor[1])
                ELSE Len(list)
        to == IF from + PageSize < Len(list) THEN from + PageSize ELSE Len(list)
    IN  SubSeq(list, from + 1, to)

InitLive ==
    /\ image \in Images
    /\ pc = "start"
    /\ url = EmptyStr
    /\ next_url = EmptyStr
    /\ token = EmptyStr
    /\ tags = <<>>
    /\ hdr = EmptyStr
    /\ result = None
    /\ requests = <<>>
    /\ responses = <<>>
    /\ authruns = <<>>
    /\ arg \in RegistryLists
    /\ ret = None

\* the top of the loop: the request BuildRequest(next_url, token) is sent
LiveSend ==
    /\ pc = "send"
    /\ pc' = "await"
    /\ UNCHANGED <<image, url, next_url, token, tags, hdr, result, requests,
                   responses, authruns, arg, ret>>

\* StatusCode::OK, with the page the registry serves for next_url
LiveRecv200 ==
    /\ pc = "await"
    /\ AfterPage(ServedPage(arg, next_url))
    /\ UNCHANGED <<image, url, token, hdr, requests, responses, authruns, arg, ret>>

\* StatusCode::UNAUTHORIZED if the response has a WWW-Authenticate header
LiveRecv401Challenge ==
    /\ pc = "await"
    /\ \E h \in PagingChallenges :
        IF token # EmptyStr
        THEN /\ Return(Context("Image not found", EmptyStr,
                        Err(<<Msg("Got HTTP 401 with authentication token", EmptyStr)>>)))
             /\ UNCHANGED hdr
        ELSE IF ~ToStrOk(h)
        THEN /\ Return(Err(<<Msg("Failed to parse WWW-Authenticate header", EmptyStr),
                             Msg("failed to convert header to a str", EmptyStr)>>))
             /\ UNCHANGED hdr
        ELSE /\ hdr' = h
             /\ pc' = "auth"
             /\ UNCHANGED result
    /\ UNCHANGED <<image, url, next_url, token, tags, requests, responses,
                   authruns, arg, ret>>

\* self.handle_auth_challenge(hdr).await.context("Image not found")?; continue
LiveNegotiate ==
    /\ pc = "auth"
    /\ \E file \in PagingFiles, answer \in PagingAnswers, order \in PagingOrders :
        LET run == HandleAuthChallenge(image, hdr, file, answer, order)
        IN  IF run.result.kind = "ok"
            THEN /\ token' = run.result.value[2]
                 /\ pc' = "send"
                 /\ UNCHANGED result
            ELSE /\ Return(Context("Image not found", EmptyStr, run.result))
                 /\ UNCHANGED token
    /\ UNCHANGED <<image, url, next_url, tags, hdr, requests, responses,
                   authruns, arg, ret>>

\* StatusCode::NOT_FOUND
LiveRecv404 ==
    /\ pc = "await"
    /\ Return(Err(<<Msg("Image not found", EmptyStr)>>))
    /\ UNCHANGED <<image, url, next_url, token, tags, hdr, requests, responses,
                   authruns, arg, ret>>

\* status => Err(anyhow!(status))
LiveRecvOther ==
    /\ pc = "await"
    /\ \E status \in OtherStatuses \cup {401} :
        Return(Err(<<Msg("", StatusText(status))>>))
    /\ UNCHANGED <<image, url, next_url, token, tags, hdr, requests, responses,
                   authruns, arg, ret>>

NextLive ==
    \/ Start
    \/ LiveSend
    \/ LiveRecv200
    \/ LiveRecv401Challenge
    \/ LiveNegotiate
    \/ LiveRecv404
    \/ LiveRecvOther

\* a step of the task: fetch_tags moves to another position. Every step of
\* NextLive is one, and one is possible wherever fetch_tags has not ended.
Advance ==
    /\ pc # "done"
    /\ \E p \in {"send", "await", "auth", "done"} : p # pc /\ pc' = p

\* the task is polled until it ends and every request is answered: a fetch
\* that has not ended moves on
SpecLive == InitLive /\ [][NextLive]_vars /\ WF_pc(Advance)

\* C19: if the registry and the token realm answer every request and the
\* registry serves a finite tag list honouring the cursor, every fetch_tags
\* invocation eventually ends, whatever token the realm returns, the empty
\* one included: it never loops forever between challenge and negotiation.
C19_Terminates == <>(pc = "done")

=============================================================================
